---- MODULE Spec2Model ----
(***************************************************************************)
(* SCAS campus analytics dashboard (Overall.py and pages/*.py).            *)
(*                                                                         *)
(* Three SQLite tables (Students, Faculty, Facilities) are read by four    *)
(* Streamlit pages that filter them and compute KPIs, written by three     *)
(* record editors (insert or update-by-key) and replaced wholesale by the  *)
(* bulk upload page.  The module has three specifications:                 *)
(*   SpecSdiv  the four definitions of sdiv applied to scalar arguments;   *)
(*   SpecView  one script run of a page over a loaded database: sidebar    *)
(*             filters, KPIs, validation messages;                         *)
(*   Spec      the store under editor saves, bulk uploads and the clock.   *)
(***************************************************************************)
EXTENDS Integers, Sequences, FiniteSets, TLC

VARIABLES
    db,            \* table name -> [cols, rows]: the committed SQLite tables
    pkConstraint,  \* whether the tables declare their ID column PRIMARY KEY
    now,           \* the wall clock when pd.Timestamp.now() last read it
    tx,            \* the upload connection and its uncommitted transaction
    lastOp,        \* what the last editor save or upload step did
    nops,          \* number of editor saves and uploads started so far
    view,          \* what the last script run of a page computed
    call           \* the last call of sdiv: arguments and outcome

vars == <<db, pkConstraint, now, tx, lastOp, nops, view, call>>

(***************************************************************************)
(* Python scalars.  A number is the exact rational n/d (d > 0, lowest      *)
(* terms); float NaN, float infinities (n the sign), None and a str (n its *)
(* length) are kinds of their own.  An expression that raises evaluates to *)
(* a value of kind "raise", e naming the exception.                        *)
(***************************************************************************)
RECURSIVE GCD(_, _)
GCD(a, b) == IF b = 0 THEN a ELSE GCD(b, a % b)

Abs(i) == IF i < 0 THEN -i ELSE i

Rat(n, d) ==
    LET s == IF d < 0 THEN -1 ELSE 1
        g == GCD(Abs(n), Abs(d))
    IN  [k |-> "num", n |-> (s * n) \div g, d |-> (s * d) \div g, e |-> ""]

Num(i) == [k |-> "num", n |-> i, d |-> 1, e |-> ""]
NaN == [k |-> "nan", n |-> 0, d |-> 1, e |-> ""]
Inf(s) == [k |-> "inf", n |-> s, d |-> 1, e |-> ""]
None == [k |-> "none", n |-> 0, d |-> 1, e |-> ""]
Str(len) == [k |-> "str", n |-> len, d |-> 1, e |-> ""]
Raise(e) == [k |-> "raise", n |-> 0, d |-> 1, e |-> e]

IsFloat(x) == x.k \in {"num", "nan", "inf"}
Sign(i) == IF i < 0 THEN -1 ELSE IF i > 0 THEN 1 ELSE 0

\* bool(x): None, zero and the empty string are false; NaN is true.
Truthy(x) ==
    CASE x.k = "none" -> FALSE
      [] x.k = "num" -> x.n # 0
      [] x.k = "str" -> x.n # 0
      [] OTHER -> TRUE

\* a / b of two Python scalars.
TrueDiv(a, b) ==
    CASE ~IsFloat(a) \/ ~IsFloat(b) -> Raise("TypeError")
      [] b.k = "num" /\ b.n = 0 -> Raise("ZeroDivisionError")
      [] a.k = "nan" \/ b.k = "nan" -> NaN
      [] a.k = "inf" /\ b.k = "inf" -> NaN
      [] a.k = "inf" -> Inf(a.n * Sign(b.n))
      [] b.k = "inf" -> Num(0)
      [] OTHER -> Rat(a.n * b.d, a.d * b.n)

\* a * b of two floats (used for "* 100").
Mul(a, b) ==
    CASE ~IsFloat(a) \/ ~IsFloat(b) -> Raise("TypeError")
      [] a.k = "nan" \/ b.k = "nan" -> NaN
      [] a.k = "inf" \/ b.k = "inf" ->
            IF Sign(a.n) * Sign(b.n) = 0 THEN NaN ELSE Inf(Sign(a.n) * Sign(b.n))
      [] OTHER -> Rat(a.n * b.n, a.d * b.d)

\* round(x, 2): to the nearest hundredth; NaN and infinities are kept.
Round2(x) ==
    CASE x.k = "raise" -> x
      [] ~IsFloat(x) -> Raise("TypeError")
      [] x.k # "num" -> x
      [] OTHER ->
            LET q == (2 * 100 * Abs(x.n) + x.d) \div (2 * x.d)
            IN  Rat(Sign(x.n) * q, 100)

(***************************************************************************)
(* sdiv, as defined in each of the four views.                             *)
(***************************************************************************)
\* an sdiv that guards against a missing denominator only
sdiv_NoneOnly(a, b, default) ==
    IF b.k # "none" THEN TrueDiv(a, b) ELSE default

sdiv_Overall(a, b, default) ==
    LET r == IF Truthy(b) THEN TrueDiv(a, b) ELSE default
    IN  IF r.k = "raise" THEN default ELSE r

sdiv_Student(a, b, default) ==
    IF Truthy(b) THEN TrueDiv(a, b) ELSE default

sdiv_Faculty(a, b, default) ==
    IF Truthy(b) THEN TrueDiv(a, b) ELSE default

sdiv_Facilities(a, b, default) ==
    IF Truthy(b) THEN TrueDiv(a, b) ELSE default

Views == {"Overall", "Student", "Faculty", "Facilities"}

sdivOf(v, a, b, default) ==
    CASE v = "Overall" -> sdiv_Overall(a, b, default)
      [] v = "Student" -> sdiv_Student(a, b, default)
      [] v = "Faculty" -> sdiv_Faculty(a, b, default)
      [] v = "Facilities" -> sdiv_Facilities(a, b, default)

\* safe_float / safe_int: float(val) or int(val), the default on ValueError or
\* TypeError.  float("") and float(None) fail; int(nan) fails; int(inf) raises
\* OverflowError, which is not caught; int() truncates toward zero.
safe_float(val, default) ==
    IF IsFloat(val) THEN val ELSE default

safe_int(val, default) ==
    CASE val.k = "num" -> Num(Sign(val.n) * (Abs(val.n) \div val.d))
      [] val.k = "inf" -> Raise("OverflowError")
      [] OTHER -> default

(***************************************************************************)
(* Tables.  A table (and the DataFrame read from it) is its column set and *)
(* its rows in rowid order; a row maps each column to a value.  Numeric    *)
(* columns hold integers, text columns strings, NULL the SQL NULL of a     *)
(* text column.  Qualification is kept as its sequence of characters.      *)
(***************************************************************************)
S_TN == "Students"
F_TN == "Faculty"
FS_TN == "Facilities"
Tables == {S_TN, F_TN, FS_TN}

NULL == "<NULL>"
\* the first entry of every editor selectbox (an em dash in the source)
NoSelection == "-"

StudentCols ==
    {"StudentID", "Name", "Program", "Year", "CGPA", "AttendancePercent", "Status",
     "TotalFeeINR", "FeePaidINR", "PendingFeeINR", "FeeStatus", "Gender"}
FacultyCols ==
    {"FacultyID", "Name", "Department", "ExperienceYears", "BaseSalaryINR", "BonusINR",
     "NetPayINR", "TotalHoursPerWeek", "ClassesHandled", "StudentsPerClass",
     "Qualification", "IsClassAdvisor", "ResearchPapersPublished"}
FacilityCols ==
    {"FacilityID", "FacilityType", "Capacity", "AverageDailyUsers", "UsageHoursPerDay",
     "MaintenanceStatus", "Location"}

SchemaOf(t) ==
    CASE t = S_TN -> StudentCols
      [] t = F_TN -> FacultyCols
      [] t = FS_TN -> FacilityCols

KeyOf(t) ==
    CASE t = S_TN -> "StudentID"
      [] t = F_TN -> "FacultyID"
      [] t = FS_TN -> "FacilityID"

Range(s) == {s[i] : i \in 1..Len(s)}
Restrict(r, cols) == [c \in cols |-> r[c]]
Project(rows, cols) == [i \in 1..Len(rows) |-> Restrict(rows[i], cols)]

RECURSIVE SeqsUpTo(_, _)
SeqsUpTo(S, n) ==
    IF n = 0 THEN {<<>>}
    ELSE LET shorter == SeqsUpTo(S, n - 1)
         IN  shorter \cup {Append(s, x) : s \in shorter, x \in S}

RECURSIVE SumOver(_, _)
SumOver(rows, c) ==
    IF rows = <<>> THEN 0 ELSE Head(rows)[c] + SumOver(Tail(rows), c)

(***************************************************************************)
(* pandas: column access, dropna().unique(), isin, Series arithmetic.      *)
(***************************************************************************)
NullableText ==
    {"Name", "Program", "Status", "Gender", "FeeStatus", "Department", "IsClassAdvisor",
     "FacilityType", "MaintenanceStatus", "Location"}

IsNull(r, c) == c \in NullableText /\ r[c] = NULL

\* sorted(df[c].dropna().unique()): the options of a multiselect
Unique(rows, c) == {rows[i][c] : i \in {j \in 1..Len(rows) : ~IsNull(rows[j], c)}}

\* df[df[c].isin(sel)] with duplicated rows
IsinDup(rows, c, sel) ==
    LET kept == SelectSeq(rows, LAMBDA r : r[c] \in sel) IN kept \o kept

\* df[df[c].isin(sel)]: the rows whose value is selected, in the order of df
Isin(rows, c, sel) == SelectSeq(rows, LAMBDA r : r[c] \in sel)

\* a filter for which an empty selection selects nothing
ApplyAlways(rows, c, sel) == Isin(rows, c, sel)

\* "if sel: df_f = df_f[df_f[c].isin(sel)]"
ApplyIf(rows, c, sel) == IF sel # {} THEN Isin(rows, c, sel) ELSE rows

\* users / capacity on int64 columns: numpy gives inf or nan for a zero divisor
SeriesDiv(a, b) ==
    IF b = 0 THEN (IF a = 0 THEN NaN ELSE Inf(Sign(a))) ELSE Rat(a, b)

AddRat(x, y) == Rat(x.n * y.d + y.n * x.d, x.d * y.d)

RECURSIVE SumRat(_)
SumRat(vals) == IF vals = <<>> THEN Num(0) ELSE AddRat(Head(vals), SumRat(Tail(vals)))

\* Series.mean(): NaN entries are skipped; the mean of nothing is NaN
SeriesMean(vals) ==
    LET present == SelectSeq(vals, LAMBDA v : v.k # "nan")
        infs == {present[i].n : i \in {j \in 1..Len(present) : present[j].k = "inf"}}
        nums == SelectSeq(present, LAMBDA v : v.k = "num")
    IN  CASE present = <<>> -> NaN
          [] Cardinality(infs) = 2 -> NaN
          [] Cardinality(infs) = 1 -> Inf(CHOOSE x \in infs : TRUE)
          [] OTHER -> TrueDiv(SumRat(nums), Num(Len(nums)))

IntMean(rows, c) == TrueDiv(Num(SumOver(rows, c)), Num(Len(rows)))

\* (df[a] / df[b] * 100).mean()
PercentMean(rows, a, b) ==
    SeriesMean([i \in 1..Len(rows) |-> Mul(SeriesDiv(rows[i][a], rows[i][b]), Num(100))])

(***************************************************************************)
(* Text: Qualification as a sequence of characters.                        *)
(***************************************************************************)
PhD == <<"P", "h", "D">>

LowerChar(ch) ==
    CASE ch = "P" -> "p"
      [] ch = "D" -> "d"
      [] ch = "H" -> "h"
      [] ch = "M" -> "m"
      [] ch = "T" -> "t"
      [] OTHER -> ch

Lower(s) == [i \in 1..Len(s) |-> LowerChar(s[i])]

\* pat occurs in s as a contiguous run
Contains(s, pat) ==
    \E i \in 1..(Len(s) - Len(pat) + 1) : SubSeq(s, i, i + Len(pat) - 1) = pat

\* Series.str.contains("PhD", case=False, na=False)
ContainsPhD(q) == Contains(Lower(q), Lower(PhD))

(***************************************************************************)
(* One script run of a page.  The run stops at the first statement that    *)
(* raises; stage names where ("filters", "validation", "kpis", "report"),  *)
(* "done" a run that reached its end.                                      *)
(***************************************************************************)
\* sorted(df[c].dropna().unique()) as a statement: KeyError without column c
Options(df, c) ==
    IF c \in df.cols THEN [err |-> "ok", opts |-> Unique(df.rows, c)]
    ELSE [err |-> "KeyError", opts |-> {}]

NoOptions == [err |-> "ok", opts |-> {}]

FirstErr(results) ==
    IF \E i \in 1..Len(results) : results[i].err # "ok" THEN "KeyError" ELSE "ok"

Run(page, stage, err, sel, out, kpi, issues) ==
    [page |-> page, stage |-> stage, err |-> err, sel |-> sel, out |-> out,
     kpi |-> kpi, issues |-> issues]

NoKpi == [x \in {} |-> 0]

\* ---- pages/Student_Analysis.py ----
\* a sidebar that reads the Year column without looking for it
StudentSidebarUnguarded(df) ==
    LET year == Options(df, "Year")
        prog == Options(df, "Program")
        stat == Options(df, "Status")
    IN  [err |-> FirstErr(<<year, prog, stat>>),
         opts |-> [Year |-> year.opts, Program |-> prog.opts, Status |-> stat.opts]]

StudentSidebar(df) ==
    LET year == IF "Year" \in df.cols THEN Options(df, "Year") ELSE NoOptions
        prog == Options(df, "Program")
        stat == Options(df, "Status")
    IN  [err |-> FirstErr(<<year, prog, stat>>),
         opts |-> [Year |-> year.opts, Program |-> prog.opts, Status |-> stat.opts]]

StudentFilter(df, sel) ==
    LET a == IF sel.Year # {} /\ "Year" \in df.cols
             THEN Isin(df.rows, "Year", sel.Year) ELSE df.rows
        b == ApplyIf(a, "Program", sel.Program)
    IN  ApplyIf(b, "Status", sel.Status)

Rate_Student(count, n) ==
    IF n # 0 THEN Round2(Mul(sdiv_Student(Num(count), Num(n), Num(0)), Num(100)))
    ELSE Num(0)

StudentKpiCols == {"CGPA", "AttendancePercent", "Status", "Program", "Gender"}

StudentKPIs(cols, df_f) ==
    LET n == Len(df_f)
        total_fees == IF n # 0 /\ "TotalFeeINR" \in cols
                      THEN Num(SumOver(df_f, "TotalFeeINR")) ELSE Num(0)
        pending_fees == IF n # 0 /\ "PendingFeeINR" \in cols
                        THEN Num(SumOver(df_f, "PendingFeeINR")) ELSE Num(0)
    IN  [n |-> n,
         avg_gpa |-> IF n # 0 THEN Round2(IntMean(df_f, "CGPA")) ELSE Num(0),
         pass_rate |-> Rate_Student(Len(SelectSeq(df_f, LAMBDA r : r.CGPA >= 2)), n),
         grad_rate |-> Rate_Student(Len(SelectSeq(df_f, LAMBDA r : r.Status = "Graduated")), n),
         drop_rate |-> Rate_Student(Len(SelectSeq(df_f, LAMBDA r : r.Status = "Dropped")), n),
         high_achievers |-> Rate_Student(Len(SelectSeq(df_f, LAMBDA r : 10 * r.CGPA >= 35)), n),
         total_fees |-> total_fees,
         pending_fees |-> pending_fees,
         pending_percent |->
            IF Truthy(total_fees)
            THEN Round2(Mul(sdiv_Student(pending_fees, total_fees, Num(0)), Num(100)))
            ELSE Num(0)]

StudentRun(df, sel) ==
    LET df_f == StudentFilter(df, sel)
        out == (S_TN :> df_f)
    IN  IF df_f # <<>> /\ ~(StudentKpiCols \subseteq df.cols)
        THEN Run("Student", "kpis", "KeyError", sel, out, NoKpi, <<>>)
        ELSE Run("Student", "done", "ok", sel, out, StudentKPIs(df.cols, df_f), <<>>)

\* ---- pages/Faculty_Analysis.py ----
FacultySidebar(df) ==
    LET dept == Options(df, "Department")
    IN  [err |-> dept.err, opts |-> [Department |-> dept.opts]]

FacultyFilter(df, sel) == ApplyIf(df.rows, "Department", sel.Department)

Rate_Faculty(count, n) ==
    IF n # 0 THEN Round2(Mul(sdiv_Faculty(Num(count), Num(n), Num(0)), Num(100)))
    ELSE Num(0)

FacultyKpiCols ==
    {"ExperienceYears", "NetPayINR", "Department", "TotalHoursPerWeek", "ClassesHandled",
     "StudentsPerClass", "Qualification", "IsClassAdvisor", "BonusINR", "BaseSalaryINR",
     "ResearchPapersPublished"}

FacultyKPIs(df_f) ==
    LET n == Len(df_f)
    IN  [n |-> n,
         avg_exp |-> IF n # 0 THEN Round2(IntMean(df_f, "ExperienceYears")) ELSE Num(0),
         phd_faculty |-> Rate_Faculty(Len(SelectSeq(df_f, LAMBDA r : ContainsPhD(r.Qualification))), n),
         class_advisors |-> IF n # 0 THEN Len(SelectSeq(df_f, LAMBDA r : r.IsClassAdvisor = "Yes"))
                            ELSE 0,
         avg_bonus_pct |-> IF n # 0 THEN Round2(PercentMean(df_f, "BonusINR", "BaseSalaryINR"))
                           ELSE Num(0)]

FacultyRun(df, sel) ==
    LET df_f == FacultyFilter(df, sel)
        out == (F_TN :> df_f)
    IN  IF df_f # <<>> /\ ~(FacultyKpiCols \subseteq df.cols)
        THEN Run("Faculty", "kpis", "KeyError", sel, out, NoKpi, <<>>)
        ELSE Run("Faculty", "done", "ok", sel, out, FacultyKPIs(df_f), <<>>)

\* ---- pages/Facilities_Analysis.py ----
Issue(kind, ids) == [kind |-> kind, ids |-> ids]

\* one check of the validation block: a message, with the IDs of the rows of
\* the mask, when any row is in the mask
Check(msgs, kind, bad) ==
    IF bad # <<>>
    THEN Append(msgs, Issue(kind, [i \in 1..Len(bad) |-> bad[i].FacilityID]))
    ELSE msgs

ValidationCols == {"AverageDailyUsers", "Capacity", "UsageHoursPerDay", "FacilityID"}

\* a validation block that stops at the first check that finds something
ValidateElif(rows) ==
    LET m1 == Check(<<>>, "CapacityExceeded",
                    SelectSeq(rows, LAMBDA r : r.AverageDailyUsers > r.Capacity))
        m2 == IF m1 # <<>> THEN m1
              ELSE Check(m1, "NegativeUsage",
                         SelectSeq(rows, LAMBDA r : r.UsageHoursPerDay < 0))
    IN  IF m2 # <<>> THEN m2
        ELSE Check(m2, "InvalidCapacity", SelectSeq(rows, LAMBDA r : r.Capacity <= 0))

\* error_messages
Validate(rows) ==
    LET m1 == Check(<<>>, "CapacityExceeded",
                    SelectSeq(rows, LAMBDA r : r.AverageDailyUsers > r.Capacity))
        m2 == Check(m1, "NegativeUsage",
                    SelectSeq(rows, LAMBDA r : r.UsageHoursPerDay < 0))
    IN  Check(m2, "InvalidCapacity", SelectSeq(rows, LAMBDA r : r.Capacity <= 0))

FacilitiesSidebar(df) ==
    LET type == Options(df, "FacilityType")
        stat == Options(df, "MaintenanceStatus")
    IN  [err |-> FirstErr(<<type, stat>>),
         opts |-> [FacilityType |-> type.opts, MaintenanceStatus |-> stat.opts]]

FacilitiesFilter(df, sel) ==
    LET a == ApplyIf(df.rows, "FacilityType", sel.FacilityType)
    IN  ApplyIf(a, "MaintenanceStatus", sel.MaintenanceStatus)

Rate_Facilities(count, n) ==
    IF n # 0 THEN Round2(Mul(sdiv_Facilities(Num(count), Num(n), Num(0)), Num(100)))
    ELSE Num(0)

\* avg_util computed whatever the number of rows
avg_util_Unguarded(df_f) ==
    Round2(PercentMean(df_f, "AverageDailyUsers", "Capacity"))

avg_util_Facilities(df_f) ==
    IF Len(df_f) # 0 THEN Round2(PercentMean(df_f, "AverageDailyUsers", "Capacity"))
    ELSE Num(0)

FacilitiesKpiCols ==
    {"AverageDailyUsers", "Capacity", "UsageHoursPerDay", "MaintenanceStatus",
     "FacilityType", "FacilityID"}

FacilitiesKPIs(df_f) ==
    LET n == Len(df_f)
    IN  [n |-> n,
         avg_daily_users |-> IF n # 0 THEN Round2(IntMean(df_f, "AverageDailyUsers"))
                             ELSE Num(0),
         avg_util |-> avg_util_Facilities(df_f),
         needs_repair_pct |->
            Rate_Facilities(Len(SelectSeq(df_f, LAMBDA r : r.MaintenanceStatus = "Needs Repair")), n),
         under_maint_count |->
            IF n # 0 THEN Len(SelectSeq(df_f, LAMBDA r : r.MaintenanceStatus = "Under Maintenance"))
            ELSE 0]

FacilitiesRun(df, sel) ==
    LET df_f == FacilitiesFilter(df, sel)
        out == (FS_TN :> df_f)
        msgs == Validate(df.rows)
    IN  IF df_f # <<>> /\ ~(FacilitiesKpiCols \subseteq df.cols)
        THEN Run("Facilities", "kpis", "KeyError", sel, out, NoKpi, msgs)
        ELSE Run("Facilities", "done", "ok", sel, out, FacilitiesKPIs(df_f), msgs)

\* ---- Overall.py ----
OverallSidebar(d) ==
    LET year == IF "Year" \in d[S_TN].cols THEN Options(d[S_TN], "Year") ELSE NoOptions
        prog == Options(d[S_TN], "Program")
        dept == Options(d[F_TN], "Department")
        type == Options(d[FS_TN], "FacilityType")
    IN  [err |-> FirstErr(<<year, prog, dept, type>>),
         opts |-> [Year |-> year.opts, Program |-> prog.opts, Department |-> dept.opts,
                   FacilityType |-> type.opts]]

OverallFilter(d, sel) ==
    LET a == IF sel.Year # {} /\ "Year" \in d[S_TN].cols
             THEN Isin(d[S_TN].rows, "Year", sel.Year) ELSE d[S_TN].rows
    IN  (S_TN :> ApplyIf(a, "Program", sel.Program))
        @@ (F_TN :> ApplyIf(d[F_TN].rows, "Department", sel.Department))
        @@ (FS_TN :> ApplyIf(d[FS_TN].rows, "FacilityType", sel.FacilityType))

Rate_Overall(count, n) ==
    IF n # 0 THEN Round2(Mul(sdiv_Overall(Num(count), Num(n), Num(0)), Num(100)))
    ELSE Num(0)

OverallKpiCols(f) ==
    (S_TN :> IF f[S_TN] # <<>> THEN {"CGPA", "AttendancePercent", "Status"} ELSE {})
    @@ (F_TN :> IF f[F_TN] # <<>> THEN {"ExperienceYears", "TotalHoursPerWeek"} ELSE {})
    @@ (FS_TN :> IF f[FS_TN] # <<>>
                 THEN {"AverageDailyUsers", "Capacity", "MaintenanceStatus",
                       "UsageHoursPerDay", "FacilityType"}
                 ELSE {})

ReportCols ==
    {"StudentID", "Name", "Program", "Year", "TotalFeeINR", "FeePaidINR", "PendingFeeINR",
     "FeeStatus"}

\* the order in which groupby sorts the FacilityType labels of the model
SortedTypes == <<"", "Lab", "Library">>
TypeRank(g) == CHOOSE i \in 1..Len(SortedTypes) : SortedTypes[i] = g

\* x <= y on floats other than NaN
FloatLeq(x, y) ==
    CASE x.k = "inf" -> x.n < 0 \/ (y.k = "inf" /\ y.n > 0)
      [] y.k = "inf" -> y.n > 0
      [] OTHER -> x.n * y.d <= y.n * x.d

\* groupby("FacilityType").apply(lambda x: users.sum() / capacity.sum() * 100):
\* one ratio per non-null type, a plain division of two numpy sums
type_util(rows) ==
    [g \in Unique(rows, "FacilityType") |->
        LET x == SelectSeq(rows, LAMBDA r : r.FacilityType = g)
        IN  Mul(SeriesDiv(SumOver(x, "AverageDailyUsers"), SumOver(x, "Capacity")),
                Num(100))]

\* what idxmax gives when there is no group or every ratio is NaN, which
\* depends on the pandas version: the label nan, or ValueError
IdxmaxOfNothing == {"nan", "ValueError"}

\* .idxmax(): the first label, in sorted order, of the largest ratio, NaN skipped
idxmax(util, of_nothing) ==
    LET cand == {g \in DOMAIN util : util[g].k # "nan"}
    IN  IF cand = {} THEN [err |-> IF of_nothing = "nan" THEN "ok" ELSE "ValueError",
                           label |-> of_nothing]
        ELSE [err |-> "ok",
              label |-> CHOOSE g \in cand :
                          \A h \in cand :
                              /\ FloatLeq(util[h], util[g])
                              /\ FloatLeq(util[g], util[h]) => TypeRank(g) <= TypeRank(h)]

top_facility(rows, of_nothing) ==
    IF Len(rows) # 0 THEN idxmax(type_util(rows), of_nothing)
    ELSE [err |-> "ok", label |-> "N/A"]

OverallKPIs(d, f, of_nothing) ==
    LET total_students == Len(f[S_TN])
        total_faculty == Len(f[F_TN])
        total_facilities == Len(f[FS_TN])
        good_count == IF total_facilities # 0
                      THEN Len(SelectSeq(f[FS_TN], LAMBDA r : r.MaintenanceStatus = "Good")) ELSE 0
    IN  [total_students |-> total_students,
         avg_Cgpa |-> IF total_students # 0 THEN Round2(IntMean(f[S_TN], "CGPA")) ELSE Num(0),
         pass_rate |-> Rate_Overall(Len(SelectSeq(f[S_TN], LAMBDA r : r.CGPA >= 6)), total_students),
         grad_rate |-> Rate_Overall(Len(SelectSeq(f[S_TN], LAMBDA r : r.Status = "Graduated")),
                                    total_students),
         drop_rate |-> Rate_Overall(Len(SelectSeq(f[S_TN], LAMBDA r : r.Status = "Dropped")),
                                    total_students),
         total_pending_fees |-> IF "PendingFeeINR" \in d[S_TN].cols
                                THEN SumOver(f[S_TN], "PendingFeeINR") ELSE 0,
         at_risk |-> Rate_Overall(Len(SelectSeq(f[S_TN], LAMBDA r : r.CGPA < 7)), total_students),
         total_faculty |-> total_faculty,
         faculty_student_ratio |->
            IF total_faculty # 0
            THEN Round2(sdiv_Overall(Num(total_students), Num(total_faculty), Num(0)))
            ELSE Num(0),
         phd_rate |->
            IF "Qualification" \in d[F_TN].cols /\ total_faculty # 0
            THEN Rate_Overall(Len(SelectSeq(f[F_TN], LAMBDA r : r.Qualification = PhD)),
                              total_faculty)
            ELSE Num(0),
         total_facilities |-> total_facilities,
         avg_util |-> IF total_facilities # 0
                      THEN Round2(PercentMean(f[FS_TN], "AverageDailyUsers", "Capacity"))
                      ELSE Num(0),
         repair_count |->
            IF total_facilities # 0
            THEN Len(SelectSeq(f[FS_TN], LAMBDA r : r.MaintenanceStatus = "Needs Repair")) ELSE 0,
         good_percent |-> Rate_Overall(good_count, total_facilities),
         type_util |-> type_util(f[FS_TN]),
         top_facility |-> top_facility(f[FS_TN], of_nothing).label]

OverallRun(d, sel, of_nothing) ==
    LET f == OverallFilter(d, sel)
        need == OverallKpiCols(f)
    IN  IF \E t \in Tables : ~(need[t] \subseteq d[t].cols)
        THEN Run("Overall", "kpis", "KeyError", sel, f, NoKpi, <<>>)
        ELSE IF top_facility(f[FS_TN], of_nothing).err # "ok"
        THEN Run("Overall", "kpis", "ValueError", sel, f, NoKpi, <<>>)
        ELSE IF f[S_TN] # <<>> /\ {"Program", "PendingFeeINR"} \subseteq d[S_TN].cols
                /\ ~(ReportCols \subseteq d[S_TN].cols)
        THEN Run("Overall", "report", "KeyError", sel, f, OverallKPIs(d, f, of_nothing), <<>>)
        ELSE Run("Overall", "done", "ok", sel, f, OverallKPIs(d, f, of_nothing), <<>>)

(***************************************************************************)
(* Bounds and the rows the tables are drawn from.                          *)
(***************************************************************************)
MaxRows == 3       \* longest table a page is run over
MaxArg == 2        \* sdiv is called with the integers -MaxArg..MaxArg

Student(id, name, program, year, cgpa, status, total, paid, pending, feeStatus, gender) ==
    [StudentID |-> id, Name |-> name, Program |-> program, Year |-> year, CGPA |-> cgpa,
     AttendancePercent |-> 75, Status |-> status, TotalFeeINR |-> total,
     FeePaidINR |-> paid, PendingFeeINR |-> pending, FeeStatus |-> feeStatus,
     Gender |-> gender]

Faculty(id, name, dept, base, bonus, qualification) ==
    [FacultyID |-> id, Name |-> name, Department |-> dept, ExperienceYears |-> 5,
     BaseSalaryINR |-> base, BonusINR |-> bonus, NetPayINR |-> base + bonus,
     TotalHoursPerWeek |-> 20, ClassesHandled |-> 2, StudentsPerClass |-> 30,
     Qualification |-> qualification, IsClassAdvisor |-> "No",
     ResearchPapersPublished |-> 1]

Facility(id, type, capacity, users, hours, status, location) ==
    [FacilityID |-> id, FacilityType |-> type, Capacity |-> capacity,
     AverageDailyUsers |-> users, UsageHoursPerDay |-> hours,
     MaintenanceStatus |-> status, Location |-> location]

StudentRows ==
    {Student("S1", "Asha", "CS", 1, 8, "Active", 10000, 4000, 6000, "Pending", "Female"),
     Student("S2", "Ravi", "EE", 2, 5, "Graduated", 10000, 10000, 0, "Paid", "Male"),
     Student("S3", "Mani", NULL, 2, 1, "Dropped", 4000, 0, 0, "Paid", "Other")}

FacultyRows ==
    {Faculty("F1", "Devi", "CS", 1000, 100, PhD),
     Faculty("F2", "Arun", "EE", 0, 50,
             <<"M", ".", "T", "e", "c", "h", ",", " ", "P", "h", "D">>),
     Faculty("F3", "Kala", NULL, 1000, 0, <<"p", "h", "d">>)}

FacilityRows ==
    {Facility("A1", "Lab", 50, 80, -2, "Good", "North"),
     Facility("A2", "Library", 100, 10, 8, "Needs Repair", "South"),
     Facility("A3", "Lab", 0, 5, 4, "Under Maintenance", NULL)}

RowsOf(t) ==
    CASE t = S_TN -> StudentRows
      [] t = F_TN -> FacultyRows
      [] t = FS_TN -> FacilityRows

\* the filter columns a loaded table may lack
Droppable(t) ==
    CASE t = S_TN -> {"Year", "Program", "Status"}
      [] t = F_TN -> {"Department"}
      [] t = FS_TN -> {"FacilityType", "MaintenanceStatus"}

Table(cols, rows) == [cols |-> cols, rows |-> Project(rows, cols)]

FirstRow(t) ==
    CASE t = S_TN -> Student("S1", "Asha", "CS", 1, 8, "Active", 10000, 4000, 6000,
                             "Pending", "Female")
      [] t = F_TN -> Faculty("F1", "Devi", "CS", 1000, 100, PhD)
      [] t = FS_TN -> Facility("A2", "Library", 100, 10, 8, "Needs Repair", "South")

DefaultDb == [t \in Tables |-> Table(SchemaOf(t), <<FirstRow(t)>>)]

EmptyDb == [t \in Tables |-> Table(SchemaOf(t), <<>>)]

NoRun == Run("none", "done", "ok", <<>>, <<>>, NoKpi, <<>>)
NoCall == [view |-> "none", a |-> None, b |-> None, default |-> None, result |-> None]
NoTx ==
    [open |-> FALSE, table |-> "none", file |-> <<>>, done |-> 0, rows |-> <<>>,
     before |-> <<>>]
NoOp == [op |-> "none", table |-> "none", key |-> "", ok |-> TRUE, done |-> 0]

Quiet ==
    /\ pkConstraint = FALSE
    /\ now = 0
    /\ tx = NoTx
    /\ lastOp = NoOp
    /\ nops = 0
    /\ view = NoRun
    /\ call = NoCall

(***************************************************************************)
(* SpecSdiv: sdiv applied to scalars.                                      *)
(***************************************************************************)
SdivArgs ==
    {Num(i) : i \in (0 - MaxArg)..MaxArg}
        \cup {Rat(1, 2), NaN, Inf(1), None, Str(0), Str(1)}

SdivDefaults == {Num(0), Num(0 - 1), None}

InitSdiv == db = DefaultDb /\ Quiet

CallSdiv(v, a, b, default) ==
    /\ call' = [view |-> v, a |-> a, b |-> b, default |-> default,
                result |-> sdivOf(v, a, b, default)]
    /\ UNCHANGED <<db, pkConstraint, now, tx, lastOp, nops, view>>

NextSdiv ==
    \E v \in Views, a \in SdivArgs, b \in SdivArgs, default \in SdivDefaults :
        CallSdiv(v, a, b, default)

SpecSdiv == InitSdiv /\ [][NextSdiv]_vars

(***************************************************************************)
(* SpecView: a page is run over a loaded database.  What a run computes    *)
(* depends on the database and the sidebar selections only, never on the   *)
(* previous run, so every behaviour is one load followed by one run.       *)
(***************************************************************************)
InitView ==
    /\ \E t \in Tables :
          \E rows \in SeqsUpTo(RowsOf(t), MaxRows),
             drop \in {{}} \cup {{c} : c \in Droppable(t)},
             rest \in {DefaultDb, EmptyDb} :
                db = [rest EXCEPT ![t] = Table(SchemaOf(t) \ drop, rows)]
    /\ Quiet

StoreUnchanged == UNCHANGED <<db, pkConstraint, now, tx, lastOp, nops, call>>

Stopped(page, stage) == Run(page, stage, "KeyError", <<>>, <<>>, NoKpi, <<>>)

RenderOverall ==
    /\ view = NoRun
    /\ LET sb == OverallSidebar(db)
       IN  IF sb.err # "ok" THEN view' = Stopped("Overall", "filters")
           ELSE \E y \in SUBSET sb.opts.Year, p \in SUBSET sb.opts.Program,
                   d \in SUBSET sb.opts.Department, f \in SUBSET sb.opts.FacilityType,
                   of_nothing \in IdxmaxOfNothing :
                    view' = OverallRun(db, [Year |-> y, Program |-> p, Department |-> d,
                                            FacilityType |-> f], of_nothing)
    /\ StoreUnchanged

RenderStudent ==
    /\ view = NoRun
    /\ LET sb == StudentSidebar(db[S_TN])
       IN  IF sb.err # "ok" THEN view' = Stopped("Student", "filters")
           ELSE \E y \in SUBSET sb.opts.Year, p \in SUBSET sb.opts.Program,
                   s \in SUBSET sb.opts.Status :
                    view' = StudentRun(db[S_TN], [Year |-> y, Program |-> p, Status |-> s])
    /\ StoreUnchanged

RenderFaculty ==
    /\ view = NoRun
    /\ LET sb == FacultySidebar(db[F_TN])
       IN  IF sb.err # "ok" THEN view' = Stopped("Faculty", "filters")
           ELSE \E d \in SUBSET sb.opts.Department :
                    view' = FacultyRun(db[F_TN], [Department |-> d])
    /\ StoreUnchanged

RenderFacilities ==
    /\ view = NoRun
    /\ LET sb == FacilitiesSidebar(db[FS_TN])
       IN  IF ~(ValidationCols \subseteq db[FS_TN].cols)
           THEN view' = Stopped("Facilities", "validation")
           ELSE IF sb.err # "ok"
           THEN view' = Run("Facilities", "filters", "KeyError", <<>>, <<>>, NoKpi,
                            Validate(db[FS_TN].rows))
           ELSE \E f \in SUBSET sb.opts.FacilityType,
                   m \in SUBSET sb.opts.MaintenanceStatus :
                    view' = FacilitiesRun(db[FS_TN], [FacilityType |-> f,
                                                     MaintenanceStatus |-> m])
    /\ StoreUnchanged

NextView == RenderOverall \/ RenderStudent \/ RenderFaculty \/ RenderFacilities

SpecView == InitView /\ [][NextView]_vars

(***************************************************************************)
(* The record editors.  A save is one script run with the button pressed:  *)
(* the table is read afresh, a record is picked among the IDs of df_f (any *)
(* ID of df, since the filters may be empty) or NoSelection for a new one, *)
(* the form is built from the stored record, the user sets the widgets,    *)
(* and the record is inserted or updated by key and committed.             *)
(***************************************************************************)
MaxOps == 2        \* editor saves and uploads started in a behaviour
MaxNow == 2        \* the clock runs over the instants 0..MaxNow
TicksPerSec == 2   \* instants of the clock within one second
MaxFile == 2       \* rows of an uploaded file

Ids(rows, keycol) == {rows[i][keycol] : i \in 1..Len(rows)}

\* pd.Timestamp.now().strftime('%Y%m%d%H%M%S'): the second, the fraction dropped
Stamp(t) == "2025010112000" \o ToString(t \div TicksPerSec)

\* the instants at which a save may read the clock: a new record reads it for
\* its key, at the last reading or later
ClockReadings(sel) == IF sel = NoSelection THEN now..MaxNow ELSE {now}

\* df[df[keycol] == sel].iloc[0].to_dict(), or {col: ""} for a new record
Picked(df, keycol, sel) ==
    IF sel # NoSelection
    THEN [new |-> FALSE,
          row |-> df.rows[CHOOSE i \in 1..Len(df.rows) :
                            /\ df.rows[i][keycol] = sel
                            /\ \A j \in 1..(i - 1) : df.rows[j][keycol] # sel]]
    ELSE [new |-> TRUE, row |-> [c \in df.cols |-> ""]]

\* data.get(c) of a numeric column, as a Python scalar
Get(data, c) ==
    IF c \notin DOMAIN data.row THEN None
    ELSE IF data.new THEN Str(0) ELSE Num(data.row[c])

\* st.number_input(min_value, max_value, value): raises unless min <= value <= max
InRange(v, lo, hi) == v.k = "num" /\ lo * v.d <= v.n /\ v.n <= hi * v.d
AtLeast(v, lo) == v.k = "num" /\ lo * v.d <= v.n

\* an enum default taken from the stored record as it is
OptionAsStored(data, c, options) ==
    IF c \in DOMAIN data.row THEN data.row[c] ELSE options[1]

\* the enum default of a selectbox: the stored value, or the first option
OptionOrFirst(data, c, options) ==
    IF c \in DOMAIN data.row /\ data.row[c] \in Range(options) THEN data.row[c]
    ELSE options[1]

\* st.selectbox(label, options, index): the option the user picks, or the one
\* at index when the widget is left untouched
Untouched == "<untouched>"
selectbox(default, choice) == IF choice = Untouched THEN default ELSE choice

\* cursor.execute("INSERT INTO t (columns) VALUES (...)"): the columns not named
\* are NULL; a column the table lacks, or a key that exists under a PRIMARY KEY
\* constraint, raises and nothing is written.
Insert(tbl, keycol, rec, pk) ==
    IF ~(DOMAIN rec \subseteq tbl.cols) THEN [ok |-> FALSE, rows |-> tbl.rows]
    ELSE IF pk /\ rec[keycol] \in Ids(tbl.rows, keycol)
    THEN [ok |-> FALSE, rows |-> tbl.rows]
    ELSE [ok |-> TRUE,
          rows |-> Append(tbl.rows,
                          [c \in tbl.cols |-> IF c \in DOMAIN rec THEN rec[c] ELSE NULL])]

\* an UPDATE without its WHERE clause: every row is written
UpdateAll(tbl, keycol, key, rec) ==
    IF ~(DOMAIN rec \subseteq tbl.cols) THEN [ok |-> FALSE, rows |-> tbl.rows]
    ELSE [ok |-> TRUE,
          rows |-> [i \in 1..Len(tbl.rows) |->
                      [c \in tbl.cols |->
                          IF c \in DOMAIN rec \ {keycol} THEN rec[c] ELSE tbl.rows[i][c]]]]

\* cursor.execute("UPDATE t SET k = ?, ... WHERE keycol = ?"): every column of
\* data_dict but the key, in every row with that key
Update(tbl, keycol, key, rec) ==
    IF ~(DOMAIN rec \subseteq tbl.cols) THEN [ok |-> FALSE, rows |-> tbl.rows]
    ELSE [ok |-> TRUE,
          rows |-> [i \in 1..Len(tbl.rows) |->
                      IF tbl.rows[i][keycol] = key
                      THEN [c \in tbl.cols |->
                              IF c \in DOMAIN rec \ {keycol} THEN rec[c]
                              ELSE tbl.rows[i][c]]
                      ELSE tbl.rows[i]]]

\* "if sel == NoSelection: INSERT ... else: UPDATE ...", then conn.commit()
Save(tbl, keycol, sel, rec, pk) ==
    IF sel = NoSelection THEN Insert(tbl, keycol, rec, pk)
    ELSE Update(tbl, keycol, sel, rec)

Saved(t, sel, rec, res) ==
    [op |-> IF sel = NoSelection THEN "Create" ELSE "Update", table |-> t,
     key |-> rec[KeyOf(t)], ok |-> res.ok, done |-> 0]

\* ---- pages/Student_Analysis.py ----
status_options == <<"Active", "Graduated", "Dropped">>
gender_options == <<"Male", "Female">>

StudentFormBuilds(data) ==
    /\ InRange(safe_int(Get(data, "Year"), Num(4)), 1, 4)
    /\ InRange(safe_float(Get(data, "CGPA"), Num(0)), 0, 10)
    /\ InRange(safe_float(Get(data, "AttendancePercent"), Num(0)), 0, 100)
    /\ AtLeast(safe_float(Get(data, "TotalFeeINR"), Num(0)), 0)
    /\ AtLeast(safe_float(Get(data, "FeePaidINR"), Num(0)), 0)

\* a fee status that is Paid only when more than the total was paid
FeeStatusStrict(pending_fee) == IF pending_fee < 0 THEN "Paid" ELSE "Pending"

FeeStatusOf(pending_fee) == IF pending_fee <= 0 THEN "Paid" ELSE "Pending"

StudentDict(data, sel, t, status, total_fee, fee_paid, gender) ==
    LET pending_fee == total_fee - fee_paid
    IN  [StudentID |-> IF sel # NoSelection THEN sel ELSE "STU" \o Stamp(t),
         Name |-> data.row.Name,
         Program |-> data.row.Program,
         Year |-> safe_int(Get(data, "Year"), Num(4)).n,
         CGPA |-> safe_float(Get(data, "CGPA"), Num(0)).n,
         AttendancePercent |-> safe_float(Get(data, "AttendancePercent"), Num(0)).n,
         Status |-> status,
         TotalFeeINR |-> total_fee,
         FeePaidINR |-> fee_paid,
         PendingFeeINR |-> pending_fee,
         FeeStatus |-> FeeStatusOf(pending_fee),
         Gender |-> gender]

\* what the user sets the widgets to
StatusInputs == {Untouched}
TotalFeeInputs == {10000}
FeePaidInputs == {4000, 10000, 12000}

SaveStudent(sel, t, status, total_fee, fee_paid) ==
    /\ ~tx.open
    /\ nops < MaxOps
    /\ t \in ClockReadings(sel)
    /\ now' = t
    /\ LET df == db[S_TN]
           data == Picked(df, "StudentID", sel)
           gender == OptionOrFirst(data, "Gender", gender_options)
           status_value == OptionOrFirst(data, "Status", status_options)
           rec == StudentDict(data, sel, t, selectbox(status_value, status), total_fee,
                              fee_paid, gender)
           res == Save(df, "StudentID", sel, rec, pkConstraint)
       IN  /\ StudentFormBuilds(data)
           /\ status_value \in Range(status_options)
           /\ db' = [db EXCEPT ![S_TN].rows = res.rows]
           /\ lastOp' = Saved(S_TN, sel, rec, res)
    /\ nops' = nops + 1
    /\ UNCHANGED <<pkConstraint, tx, view, call>>

\* ---- pages/Faculty_Analysis.py ----
FacultyFormBuilds(data) ==
    /\ InRange(safe_float(Get(data, "ExperienceYears"), Num(0)), 0, 60)
    /\ AtLeast(safe_float(Get(data, "BaseSalaryINR"), Num(0)), 0)
    /\ AtLeast(safe_float(Get(data, "BonusINR"), Num(0)), 0)
    /\ AtLeast(safe_float(Get(data, "NetPayINR"), Num(0)), 0)
    /\ AtLeast(safe_float(Get(data, "TotalHoursPerWeek"), Num(0)), 0)
    /\ AtLeast(safe_int(Get(data, "ClassesHandled"), Num(0)), 0)
    /\ AtLeast(safe_int(Get(data, "StudentsPerClass"), Num(0)), 0)
    /\ AtLeast(safe_int(Get(data, "ResearchPapersPublished"), Num(0)), 0)

AdvisorInputs == {"Yes"}

FacultyDict(data, sel, t, is_class_advisor) ==
    [FacultyID |-> IF sel # NoSelection THEN sel ELSE "FAC" \o Stamp(t),
     Name |-> data.row.Name,
     Department |-> data.row.Department,
     ExperienceYears |-> safe_float(Get(data, "ExperienceYears"), Num(0)).n,
     BaseSalaryINR |-> safe_float(Get(data, "BaseSalaryINR"), Num(0)).n,
     BonusINR |-> safe_float(Get(data, "BonusINR"), Num(0)).n,
     NetPayINR |-> safe_float(Get(data, "NetPayINR"), Num(0)).n,
     TotalHoursPerWeek |-> safe_float(Get(data, "TotalHoursPerWeek"), Num(0)).n,
     ClassesHandled |-> safe_int(Get(data, "ClassesHandled"), Num(0)).n,
     StudentsPerClass |-> safe_int(Get(data, "StudentsPerClass"), Num(0)).n,
     Qualification |-> IF data.new THEN <<>> ELSE data.row.Qualification,
     IsClassAdvisor |-> is_class_advisor,
     ResearchPapersPublished |-> safe_int(Get(data, "ResearchPapersPublished"), Num(0)).n]

SaveFaculty(sel, t, is_class_advisor) ==
    /\ ~tx.open
    /\ nops < MaxOps
    /\ t \in ClockReadings(sel)
    /\ now' = t
    /\ LET df == db[F_TN]
           data == Picked(df, "FacultyID", sel)
           rec == FacultyDict(data, sel, t, is_class_advisor)
           res == Save(df, "FacultyID", sel, rec, pkConstraint)
       IN  /\ FacultyFormBuilds(data)
           /\ db' = [db EXCEPT ![F_TN].rows = res.rows]
           /\ lastOp' = Saved(F_TN, sel, rec, res)
    /\ nops' = nops + 1
    /\ UNCHANGED <<pkConstraint, tx, view, call>>

\* ---- pages/Facilities_Analysis.py ----
maintenance_options == <<"Good", "Under Maintenance", "Needs Repair">>

FacilityFormBuilds(data) ==
    /\ AtLeast(safe_int(Get(data, "Capacity"), Num(0)), 0)
    /\ AtLeast(safe_int(Get(data, "AverageDailyUsers"), Num(0)), 0)
    /\ AtLeast(safe_float(Get(data, "UsageHoursPerDay"), Num(0)), 0)

\* a data_dict that also carries the Location input
FacilityDictWithLocation(data, sel, t, maintenance_status, location) ==
    [FacilityID |-> IF sel # NoSelection THEN sel ELSE "FAC" \o Stamp(t),
     FacilityType |-> data.row.FacilityType,
     Capacity |-> safe_int(Get(data, "Capacity"), Num(0)).n,
     AverageDailyUsers |-> safe_int(Get(data, "AverageDailyUsers"), Num(0)).n,
     UsageHoursPerDay |-> safe_float(Get(data, "UsageHoursPerDay"), Num(0)).n,
     MaintenanceStatus |-> maintenance_status,
     Location |-> location]

FacilityDict(data, sel, t, maintenance_status, location) ==
    [FacilityID |-> IF sel # NoSelection THEN sel ELSE "FAC" \o Stamp(t),
     FacilityType |-> data.row.FacilityType,
     Capacity |-> safe_int(Get(data, "Capacity"), Num(0)).n,
     AverageDailyUsers |-> safe_int(Get(data, "AverageDailyUsers"), Num(0)).n,
     UsageHoursPerDay |-> safe_float(Get(data, "UsageHoursPerDay"), Num(0)).n,
     MaintenanceStatus |-> maintenance_status]

MaintenanceInputs == {Untouched}
LocationInputs == {"East", "West"}

SaveFacility(sel, t, maintenance_status, location) ==
    /\ ~tx.open
    /\ nops < MaxOps
    /\ t \in ClockReadings(sel)
    /\ now' = t
    /\ LET df == db[FS_TN]
           data == Picked(df, "FacilityID", sel)
           default_status == OptionOrFirst(data, "MaintenanceStatus", maintenance_options)
           rec == FacilityDict(data, sel, t, selectbox(default_status, maintenance_status),
                               location)
           res == Save(df, "FacilityID", sel, rec, pkConstraint)
       IN  /\ FacilityFormBuilds(data)
           /\ default_status \in Range(maintenance_options)
           /\ db' = [db EXCEPT ![FS_TN].rows = res.rows]
           /\ lastOp' = Saved(FS_TN, sel, rec, res)
    /\ nops' = nops + 1
    /\ UNCHANGED <<pkConstraint, tx, view, call>>

(***************************************************************************)
(* pages/Upload_List.py: upload_to_db with the save button pressed.  The   *)
(* connection is opened with the defaults of sqlite3.connect, so DELETE    *)
(* opens a transaction that holds the write lock until conn.commit(); an   *)
(* exception or the end of the process before that closes the connection   *)
(* with the transaction uncommitted.                                       *)
(***************************************************************************)
\* a connection in autocommit mode: nothing is left to roll back
KeepWritten(committed, pending) == pending

\* closing a connection with an open transaction rolls it back
Rollback(committed, pending) == committed

\* the rows an uploaded file is made of
UploadRows(t) == RowsOf(t) \ {FirstRow(t)}

Aborted ==
    [op |-> "UploadAborted", table |-> tx.table, key |-> "", ok |-> FALSE,
     done |-> tx.done]

\* an upload that omits the DELETE: the inserts add to the rows already stored
UploadNoDelete(t, file) ==
    /\ ~tx.open
    /\ nops < MaxOps
    /\ tx' = [open |-> TRUE, table |-> t, file |-> file, done |-> 0, rows |-> db[t].rows,
              before |-> db[t].rows]
    /\ lastOp' = [op |-> "UploadDelete", table |-> t, key |-> "", ok |-> TRUE,
                  done |-> 0]
    /\ nops' = nops + 1
    /\ UNCHANGED <<db, pkConstraint, now, view, call>>

\* cursor.execute("DELETE FROM table_name")
UploadDelete(t, file) ==
    /\ ~tx.open
    /\ nops < MaxOps
    /\ tx' = [open |-> TRUE, table |-> t, file |-> file, done |-> 0, rows |-> <<>>,
              before |-> db[t].rows]
    /\ lastOp' = [op |-> "UploadDelete", table |-> t, key |-> "", ok |-> TRUE,
                  done |-> 0]
    /\ nops' = nops + 1
    /\ UNCHANGED <<db, pkConstraint, now, view, call>>

\* one turn of "for _, row in df.iterrows(): cursor.execute(INSERT ...)"
UploadInsert ==
    /\ tx.open
    /\ tx.done < Len(tx.file)
    /\ LET t == tx.table
           res == Insert([cols |-> db[t].cols, rows |-> tx.rows], KeyOf(t),
                         tx.file[tx.done + 1], pkConstraint)
       IN  IF res.ok
           THEN /\ tx' = [tx EXCEPT !.rows = res.rows, !.done = tx.done + 1]
                /\ lastOp' = [op |-> "UploadInsert", table |-> t, key |-> "",
                              ok |-> TRUE, done |-> tx.done + 1]
                /\ UNCHANGED db
           ELSE /\ db' = [db EXCEPT ![t].rows = Rollback(db[t].rows, tx.rows)]
                /\ tx' = NoTx
                /\ lastOp' = Aborted
    /\ UNCHANGED <<pkConstraint, now, nops, view, call>>

\* conn.commit(); conn.close()
UploadCommit ==
    /\ tx.open
    /\ tx.done = Len(tx.file)
    /\ db' = [db EXCEPT ![tx.table].rows = tx.rows]
    /\ tx' = NoTx
    /\ lastOp' = [op |-> "UploadCommitted", table |-> tx.table, key |-> "", ok |-> TRUE,
                  done |-> tx.done]
    /\ UNCHANGED <<pkConstraint, now, nops, view, call>>

\* the script run or the process ends before conn.commit()
UploadCrash ==
    /\ tx.open
    /\ db' = [db EXCEPT ![tx.table].rows = Rollback(db[tx.table].rows, tx.rows)]
    /\ tx' = NoTx
    /\ lastOp' = Aborted
    /\ UNCHANGED <<pkConstraint, now, nops, view, call>>

Init ==
    /\ db = DefaultDb
    /\ pkConstraint \in BOOLEAN
    /\ now = 0
    /\ tx = NoTx
    /\ lastOp = NoOp
    /\ nops = 0
    /\ view = NoRun
    /\ call = NoCall

Next ==
    \/ \E sel \in {NoSelection} \cup Ids(db[S_TN].rows, "StudentID"),
          t \in 0..MaxNow, status \in StatusInputs, total_fee \in TotalFeeInputs,
          fee_paid \in FeePaidInputs :
            SaveStudent(sel, t, status, total_fee, fee_paid)
    \/ \E sel \in {NoSelection} \cup Ids(db[F_TN].rows, "FacultyID"),
          t \in 0..MaxNow, is_class_advisor \in AdvisorInputs :
            SaveFaculty(sel, t, is_class_advisor)
    \/ \E sel \in {NoSelection} \cup Ids(db[FS_TN].rows, "FacilityID"),
          t \in 0..MaxNow, maintenance_status \in MaintenanceInputs,
          location \in LocationInputs :
            SaveFacility(sel, t, maintenance_status, location)
    \/ \E t \in Tables : \E file \in SeqsUpTo(UploadRows(t), MaxFile) : UploadDelete(t, file)
    \/ UploadInsert
    \/ UploadCommit
    \/ UploadCrash

Spec == Init /\ [][Next]_vars

(***************************************************************************)
(* Properties of the filters (SpecView).                                   *)
(***************************************************************************)
RECURSIVE IsSubseq(_, _)
IsSubseq(s, t) ==
    IF s = <<>> THEN TRUE
    ELSE IF t = <<>> THEN FALSE
    ELSE IF Head(s) = Head(t) THEN IsSubseq(Tail(s), Tail(t))
    ELSE IsSubseq(s, Tail(t))

Occurrences(rows, r) == Cardinality({i \in 1..Len(rows) : rows[i] = r})

Filtered(v) == v.page # "none" /\ v.stage # "filters" /\ v.stage # "validation"

FieldsOf(t) ==
    CASE t = S_TN -> {"Year", "Program", "Status"}
      [] t = F_TN -> {"Department"}
      [] t = FS_TN -> {"FacilityType", "MaintenanceStatus"}

\* r passes every field of its table that has a non-empty selection, f excepted
PassesBut(r, t, sel, f) ==
    \A c \in (FieldsOf(t) \cap DOMAIN sel) \ {f} : sel[c] # {} => r[c] \in sel[c]

Passes(r, t, sel) == PassesBut(r, t, sel, "")

\* C1: whatever the collection and the selections, the filtered collection is
\* a subsequence of the loaded one: no row is made up, none is repeated more
\* often than it is loaded, and the retained rows keep their order.
C1_FilteredIsSubsequence ==
    Filtered(view) => \A t \in DOMAIN view.out : IsSubseq(view.out[t], db[t].rows)

C1_Witness ==
    /\ view.page = "Student" /\ view.stage = "done"
    /\ view.sel.Status # {}
    /\ Len(view.out[S_TN]) = 2
    /\ Len(db[S_TN].rows) = 3
    /\ db[S_TN].rows[1] # view.out[S_TN][1]

\* C2: a row is retained exactly when, for every field with a non-empty
\* selection, its value is one of the selected values; an empty selection
\* excludes nothing.
C2_RetainedIffSelected ==
    Filtered(view) =>
        \A t \in DOMAIN view.out : \A i \in 1..Len(db[t].rows) :
            LET r == db[t].rows[i]
            IN  Occurrences(view.out[t], r) =
                    IF Passes(r, t, view.sel) THEN Occurrences(db[t].rows, r) ELSE 0

C2_Witness ==
    /\ view.page = "Student" /\ view.stage = "done"
    /\ Cardinality(view.sel.Year) = 1 /\ Cardinality(view.sel.Program) = 2
    /\ view.sel.Status = {}
    /\ Len(view.out[S_TN]) = 1
    /\ Len(db[S_TN].rows) = 3

PageFields(page) ==
    CASE page = "Overall" -> {"Year", "Program", "Department", "FacilityType"}
      [] page = "Student" -> {"Year", "Program", "Status"}
      [] page = "Faculty" -> {"Department"}
      [] page = "Facilities" -> {"FacilityType", "MaintenanceStatus"}
      [] OTHER -> {}

TableOfField(c) == CHOOSE t \in Tables : c \in FieldsOf(t)

Lacks(c) == c \notin db[TableOfField(c)].cols

C4_ZeroDenominatorGivesDefault ==
    (call.view # "none" /\ call.b = Num(0)) => call.result = call.default

C4_Witness ==
    /\ call.view = "Faculty"
    /\ call.a = Num(2) /\ call.b = Num(0) /\ call.default = Num(0 - 1)
    /\ call.result = Num(0 - 1)

\* C5 as claimed: in every view sdiv returns default when the denominator is
\* NaN or None, and sdiv never raises.
C5_NaNOrNoneGivesDefaultNeverRaises ==
    call.view # "none" =>
        /\ call.result.k # "raise"
        /\ call.b.k \in {"nan", "none"} => call.result = call.default

(***************************************************************************)
(* Properties of the KPIs and of the validation block (SpecView).          *)
(***************************************************************************)
AllZero(kpi, names) == \A m \in names : kpi[m] = Num(0)

RatesOf(page, t) ==
    CASE page = "Student" -> {"pass_rate", "grad_rate", "drop_rate", "high_achievers",
                              "pending_percent"}
      [] page = "Faculty" -> {"phd_faculty", "avg_bonus_pct"}
      [] page = "Facilities" -> {"needs_repair_pct", "avg_util"}
      [] page = "Overall" /\ t = S_TN -> {"pass_rate", "grad_rate", "drop_rate", "at_risk"}
      [] page = "Overall" /\ t = F_TN -> {"phd_rate"}
      [] page = "Overall" /\ t = FS_TN -> {"avg_util", "good_percent"}

\* C6: when a filtered collection is empty, every rate or percentage computed
\* from it is the number 0 (never NaN), and computing the KPIs of a page whose
\* filtered collections are all empty raises nothing.
C6_EmptyCollectionRatesAreZero ==
    Filtered(view) =>
        /\ (\A t \in DOMAIN view.out : view.out[t] = <<>>) => view.stage = "done"
        /\ view.stage # "kpis" =>
              \A t \in DOMAIN view.out :
                  view.out[t] = <<>> => AllZero(view.kpi, RatesOf(view.page, t))

C6_Witness ==
    /\ view.page = "Facilities" /\ view.stage = "done"
    /\ Len(db[FS_TN].rows) = 3
    /\ view.sel.FacilityType # {} /\ view.sel.MaintenanceStatus # {}
    /\ view.out[FS_TN] = <<>>
    /\ view.kpi.avg_util = Num(0) /\ view.kpi.needs_repair_pct = Num(0)

IssueKinds == <<"CapacityExceeded", "NegativeUsage", "InvalidCapacity">>

Violates(kind, r) ==
    CASE kind = "CapacityExceeded" -> r.AverageDailyUsers > r.Capacity
      [] kind = "NegativeUsage" -> r.UsageHoursPerDay < 0
      [] kind = "InvalidCapacity" -> r.Capacity <= 0

\* C8: the three checks are evaluated independently: an issue of a kind is
\* reported exactly when some facility violates that check, once, with the IDs
\* of exactly the violating facilities; the issues come in the order
\* CapacityExceeded, NegativeUsage, InvalidCapacity; and there is no issue
\* exactly when no facility violates any check.
C8_ValidationReportsEachCheck ==
    (view.page = "Facilities" /\ view.stage # "validation") =>
        LET rows == db[FS_TN].rows
            kinds == [i \in 1..Len(view.issues) |-> view.issues[i].kind]
        IN  /\ IsSubseq(kinds, IssueKinds)
            /\ \A j \in 1..Len(IssueKinds) :
                  LET bad == {i \in 1..Len(rows) : Violates(IssueKinds[j], rows[i])}
                      at == {i \in 1..Len(kinds) : kinds[i] = IssueKinds[j]}
                  IN  /\ Cardinality(at) = IF bad = {} THEN 0 ELSE 1
                      /\ \A i \in at :
                            /\ Len(view.issues[i].ids) = Cardinality(bad)
                            /\ Range(view.issues[i].ids)
                                 = {rows[b].FacilityID : b \in bad}
            /\ (view.issues = <<>>)
                 <=> ~\E i \in 1..Len(rows), j \in 1..Len(IssueKinds) :
                          Violates(IssueKinds[j], rows[i])

C8_Witness ==
    /\ view.page = "Facilities"
    /\ Len(db[FS_TN].rows) = 1
    /\ db[FS_TN].rows[1].Capacity = 50
    /\ db[FS_TN].rows[1].AverageDailyUsers = 80
    /\ db[FS_TN].rows[1].UsageHoursPerDay = 0 - 2
    /\ view.issues = <<Issue("CapacityExceeded", <<"A1">>), Issue("NegativeUsage", <<"A1">>)>>

(***************************************************************************)
(* Properties of the editors and of the bulk upload (Spec).                *)
(***************************************************************************)
SavedRows == {i \in 1..Len(db[lastOp.table].rows) :
                db[lastOp.table].rows[i][KeyOf(lastOp.table)] = lastOp.key}

StudentSaved == lastOp.op \in {"Create", "Update"} /\ lastOp.table = S_TN /\ lastOp.ok

\* C7: after a student save (create or update) the record written has
\* PendingFeeINR = TotalFeeINR - FeePaidINR and FeeStatus "Paid" exactly when
\* PendingFeeINR <= 0, "Pending" otherwise.
C7_SavedFeesConsistent ==
    StudentSaved =>
        \A i \in SavedRows :
            LET r == db[S_TN].rows[i]
            IN  /\ r.PendingFeeINR = r.TotalFeeINR - r.FeePaidINR
                /\ r.FeeStatus \in {"Paid", "Pending"}
                /\ r.FeeStatus = "Paid" <=> r.PendingFeeINR <= 0

C7_Witness ==
    /\ StudentSaved /\ lastOp.op = "Update" /\ lastOp.key = "S1"
    /\ \E i \in SavedRows :
          LET r == db[S_TN].rows[i]
          IN  /\ r.TotalFeeINR = 10000 /\ r.FeePaidINR = 10000
              /\ r.PendingFeeINR = 0 /\ r.FeeStatus = "Paid"

\* C9 as claimed: an upload that fails after the delete-all and after some but
\* not all of the inserts leaves the stored collection partially replaced: the
\* previous rows gone, the rows inserted so far present.
C9_FailedUploadLeavesPartialReplacement ==
    [][(tx.open /\ lastOp'.op = "UploadAborted"
        /\ 0 < tx.done /\ tx.done < Len(tx.file))
            => db'[tx.table].rows = SubSeq(tx.file, 1, tx.done)]_vars

\* C9: the delete-all and the inserts of an upload run in one transaction
\* that is committed once, after the last insert: an upload that fails or
\* crashes before the commit, after however many inserts, leaves the stored
\* collection as it was before the upload (nothing deleted, nothing inserted).
C9_FailedUploadLeavesCollectionUnchanged ==
    [][(tx.open /\ lastOp'.op = "UploadAborted")
            => /\ db'[tx.table].rows = tx.before
               /\ db' = db]_vars

C9_Witness ==
    /\ lastOp.op = "UploadAborted"
    /\ lastOp.done = 1
    /\ db[lastOp.table].rows = <<FirstRow(lastOp.table)>>

\* C10 as claimed: after any sequence of create-saves no two records of a
\* collection share a primary key, so the record a create has just inserted is
\* the only one with its key.
C10_CreatedKeyIsUnique ==
    (lastOp.op = "Create" /\ lastOp.ok) => Cardinality(SavedRows) = 1

\* C11 as claimed: two creations in the same collection made at distinct
\* timestamps (distinct readings of the clock) produce distinct keys.  Stated
\* for two creations that follow one another.
C11_DistinctTimestampsGiveDistinctKeys ==
    [][(/\ lastOp.op = "Create" /\ lastOp'.op = "Create"
        /\ lastOp'.table = lastOp.table
        /\ now' # now)
            => lastOp'.key # lastOp.key]_vars

(***************************************************************************)
(* Properties of the KPIs (SpecView).                                      *)
(***************************************************************************)
\* the rate the PhD KPI is documented to show: the share, in percent, of the
\* rows whose Qualification contains "PhD" in any letter case
SubstringPhDRate(rows) ==
    IF rows = <<>> THEN Num(0)
    ELSE Round2(Rat(100 * Len(SelectSeq(rows, LAMBDA r : ContainsPhD(r.Qualification))),
                    Len(rows)))

KpisShown == view.err = "ok" \/ view.stage = "report"

\* C12 as claimed: in the overall summary and in the faculty analysis the PhD
\* rate is the number of filtered faculty whose Qualification contains "PhD"
\* as a substring, case-insensitively, over the number of filtered faculty,
\* times 100, so the two views agree on the same filtered faculty.
C12_PhDRateIsSubstringMatchInEveryView ==
    (KpisShown /\ "Qualification" \in db[F_TN].cols) =>
        /\ view.page = "Faculty" => view.kpi.phd_faculty = SubstringPhDRate(view.out[F_TN])
        /\ view.page = "Overall" => view.kpi.phd_rate = SubstringPhDRate(view.out[F_TN])

\* the summed Capacity of the filtered facilities of type g
GroupCapacity(g) ==
    SumOver(SelectSeq(view.out[FS_TN], LAMBDA r : r.FacilityType = g), "Capacity")

\* C13 as claimed: computing the top-facility-type metric never raises, the
\* metric is the sentinel "N/A" on an empty filtered collection, and a type
\* whose summed Capacity is 0 gets the safe-division default ratio 0, not an
\* infinite or undefined one.
C13_TopFacilityUsesSafeDivision ==
    view.page = "Overall" =>
        /\ view.err # "ValueError"
        /\ KpisShown =>
            /\ view.out[FS_TN] = <<>> => view.kpi.top_facility = "N/A"
            /\ \A g \in DOMAIN view.kpi.type_util :
                  GroupCapacity(g) = 0 => view.kpi.type_util[g] = Num(0)

(***************************************************************************)
(* Properties of the editors, continued (Spec).                            *)
(***************************************************************************)
EditorSaved == lastOp.op \in {"Create", "Update"} /\ lastOp.ok

\* C14: after an editor save the saved record's Status is one of Active,
\* Graduated, Dropped, its Gender one of Male, Female and its
\* MaintenanceStatus one of Good, Under Maintenance, Needs Repair: a stored
\* (or blank) value that is no recognized option is replaced by the first
\* option.
C14_SavedEnumsAreRecognizedOptions ==
    EditorSaved =>
        \A i \in SavedRows :
            LET r == db[lastOp.table].rows[i]
            IN  /\ lastOp.table = S_TN =>
                    /\ r.Status \in {"Active", "Graduated", "Dropped"}
                    /\ r.Gender \in {"Male", "Female"}
                /\ lastOp.table = FS_TN =>
                    r.MaintenanceStatus \in {"Good", "Under Maintenance", "Needs Repair"}

\* the student whose stored Gender is "Other" has been saved as "Male"
C14_Witness ==
    /\ EditorSaved /\ lastOp.op = "Update" /\ lastOp.table = S_TN /\ lastOp.key = "S3"
    /\ \E i \in SavedRows : db[S_TN].rows[i].Gender = "Male"

\* this step is an editor save
SaveStep == nops' # nops /\ lastOp'.op \in {"Create", "Update"}

\* C15: a save with an existing key selected changes only the records with
\* that key, changes no key and leaves the other records and the number of
\* records as they were; a save with no key selected appends one record and
\* leaves the existing ones as they were (nothing is written when the INSERT
\* is refused); no save removes a record or touches another collection.
C15_SaveIsInsertOrUpdateByKey ==
    [][SaveStep =>
        LET t == lastOp'.table
            k == KeyOf(t)
            old == db[t].rows
            new == db'[t].rows
        IN  /\ \A u \in Tables \ {t} : db'[u] = db[u]
            /\ db'[t].cols = db[t].cols
            /\ lastOp'.op = "Update" =>
                /\ Len(new) = Len(old)
                /\ \A i \in 1..Len(old) :
                      /\ new[i][k] = old[i][k]
                      /\ old[i][k] # lastOp'.key => new[i] = old[i]
            /\ lastOp'.op = "Create" =>
                /\ Len(new) = Len(old) + (IF lastOp'.ok THEN 1 ELSE 0)
                /\ SubSeq(new, 1, Len(old)) = old
                /\ lastOp'.ok => new[Len(new)][k] = lastOp'.key]_vars

\* student S1 has been updated next to a record created before
C15_Witness ==
    /\ EditorSaved /\ lastOp.op = "Update" /\ lastOp.table = S_TN /\ lastOp.key = "S1"
    /\ Len(db[S_TN].rows) = 2
    /\ db[S_TN].rows[1].FeePaidINR = 10000
    /\ db[S_TN].rows[2].StudentID # "S1" /\ db[S_TN].rows[2].FeePaidINR = 4000

(***************************************************************************)
(* Properties of the bulk upload, continued (Spec).                        *)
(***************************************************************************)
\* C16: the commit of an upload replaces the whole target collection: the
\* stored rows are then exactly the rows of the file, one per file row in
\* file order, no row stored before the upload remains unless the file holds
\* it, and the other two collections are unchanged.
C16_CommitReplacesCollection ==
    [][(tx.open /\ lastOp'.op = "UploadCommitted") =>
        /\ db'[tx.table].rows = tx.file
        /\ \A i \in 1..Len(tx.before) :
              tx.before[i] \notin Range(tx.file) => tx.before[i] \notin Range(db'[tx.table].rows)
        /\ \A u \in Tables \ {tx.table} : db'[u] = db[u]]_vars

\* a two-row student file has been committed over the stored student
C16_Witness ==
    /\ lastOp.op = "UploadCommitted" /\ lastOp.table = S_TN /\ lastOp.done = 2
    /\ Len(db[S_TN].rows) = 2
    /\ db[S_TN].rows[1].StudentID = "S2" /\ db[S_TN].rows[2].StudentID = "S3"

(***************************************************************************)
(* Properties of the facility editor (Spec).                               *)
(***************************************************************************)
\* C17: a facility save never writes Location: on update every record keeps
\* its stored Location whatever was typed in the Location input, and on
\* create the new record has no Location value.
C17_FacilitySaveNeverWritesLocation ==
    [][(SaveStep /\ lastOp'.table = FS_TN /\ lastOp'.ok) =>
        LET old == db[FS_TN].rows
            new == db'[FS_TN].rows
        IN  /\ \A i \in 1..Len(old) : new[i].Location = old[i].Location
            /\ lastOp'.op = "Create" => new[Len(new)].Location = NULL]_vars

\* facility A2 has been updated and is still located where it was
C17_Witness ==
    /\ EditorSaved /\ lastOp.op = "Update" /\ lastOp.table = FS_TN /\ lastOp.key = "A2"
    /\ \E i \in SavedRows : db[FS_TN].rows[i].Location = "South"

====
